---- MODULE Spec2Model ----
(***************************************************************************)
(* A state-machine model of tap_marketo/sync.py: the orchestrator `sync`   *)
(* and the category drivers sync_leads, sync_activities, sync_programs,    *)
(* sync_paginated and sync_activity_types, together with the bookmark      *)
(* state they thread through and the last state handed to write_state.     *)
(*                                                                         *)
(* Time is counted in ticks.  A second is TicksPerSecond ticks, so that    *)
(* replace(microsecond=0) is a real truncation, and a day is               *)
(* SecondsPerDay seconds (scaled down from 86400).                         *)
(***************************************************************************)
EXTENDS Integers, Sequences, FiniteSets, TLC

\* ---------------------------------------------------------------- bounds
TicksPerSecond == 2
SecondsPerDay == 2
MaxClockStep == 1
MaxExports == 4
MaxRuns == 2
MaxPages == 3

\* ------------------------------------------------------ program constants
MAX_EXPORT_DAYS == 30
ATTRIBUTION_WINDOW_DAYS == 1
MAX_RETURN == 200

Day == TicksPerSecond * SecondsPerDay

\* Python's None, for a bookmark value, an export id, a page token.
None == -1
\* Python's None for the currently-syncing marker (a stream id otherwise).
NoStream == "None"

\* The bookmark every scenario starts from: far enough from 0 for the
\* attribution window to be subtracted.
BaseTime == 4 * Day

\* datetime.replace(microsecond=0): drop the sub-second part.
TruncSecond(t) == t - (t % TicksPerSecond)

StreamIds ==
    {"activity_types", "leads", "activities_1", "campaigns", "lists",
     "programs", "widgets"}

VARIABLES
    catalog,          \* catalog["streams"]: sequence of [id, selected]
    use_corona,       \* client.use_corona
    data,             \* what the remote holds: rows per endpoint
    exports,          \* the remote's bulk export jobs, by id (index)
    now,              \* the clock pendulum.utcnow() reads
    state,            \* the state dict threaded through sync
    persisted,        \* the last state handed to singer.write_state
    pc,               \* position of the process
    idx,              \* index of `for stream in catalog["streams"]`
    starting_stream,  \* sync's local starting_stream
    loc,              \* the running driver's locals
    emitted,          \* log of singer.write_record calls
    requests,         \* log of client.request / create_export calls
    ran,              \* ids whose driver was entered, this run
    windows,          \* (export_start, export_end) pairs of the running driver
    run,              \* number of the current process run
    lastWrite,        \* which bookmark write the last step ended with
    error,            \* the exception that ended the run, if any
    metrics,          \* log of record-count metrics, this run
    hist,             \* snapshots taken at run start, category start, window start
    fmt               \* one call of format_value: its arguments and its outcome

vars ==
    <<catalog, use_corona, data, exports, now, state, persisted, pc, idx,
      starting_stream, loc, emitted, requests, ran, windows, run, lastWrite,
      error, metrics, hist, fmt>>

env == <<catalog, use_corona, data, fmt>>

\* ----------------------------------------------------- singer.bookmarks
EmptyBookmark ==
    [cursor |-> None, export_id |-> None, export_end |-> None,
     next_page_token |-> None]

get_bookmark(st, id, key) == st.bookmarks[id][key]

write_bookmark(st, id, key, val) ==
    [st EXCEPT !.bookmarks[id][key] = val]

get_currently_syncing(st) == st.currently_syncing

set_currently_syncing(st, id) == [st EXCEPT !.currently_syncing = id]

\* Mutant: the write is dropped, the last written state stays as it was.
write_state_Dropped(st) == persisted

\* singer.write_state: what the state sink holds after the call.
write_state(st) == st

\* ------------------------------------------------------------- helpers
RECURSIVE SeqOfIds(_)
\* The elements of a finite set of row ids in increasing order.
SeqOfIds(S) ==
    IF S = {} THEN <<>>
    ELSE LET m == CHOOSE x \in S : \A y \in S : x <= y
         IN <<m>> \o SeqOfIds(S \ {m})

Last(s) == s[Len(s)]

\* The rows of a set of rows as a sequence, by increasing id (the order the
\* remote returns them in).
RowSeq(S) ==
    LET ids == SeqOfIds({r.id : r \in S})
    IN [i \in 1..Len(ids) |-> CHOOSE r \in S : r.id = ids[i]]

\* ------------------------------------------------------- pure functions
\* Mutant: the export info and bookmark are written under "leads" whatever
\* the stream.
update_state_with_export_info_Leads(st, id, bookmark, export_id, export_end) ==
    LET s1 == write_bookmark(st, "leads", "export_id", export_id)
        s2 == write_bookmark(s1, "leads", "export_end", export_end)
    IN IF bookmark # None THEN write_bookmark(s2, "leads", "cursor", bookmark) ELSE s2

\* update_state_with_export_info without its write_state, which the calling
\* action performs (persisted' = write_state(state')).
update_state_with_export_info(st, id, bookmark, export_id, export_end) ==
    LET s1 == write_bookmark(st, id, "export_id", export_id)
        s2 == write_bookmark(s1, id, "export_end", export_end)
    IN IF bookmark # None THEN write_bookmark(s2, id, "cursor", bookmark) ELSE s2

\* Mutant: the window end is not capped at the current time.
get_export_end_Uncapped(export_start, n1, n2) ==
    TruncSecond(export_start + MAX_EXPORT_DAYS * Day)

\* get_export_end: n1 and n2 are the two readings of pendulum.utcnow().
get_export_end(export_start, n1, n2) ==
    LET export_end == export_start + MAX_EXPORT_DAYS * Day
    IN TruncSecond(IF export_end >= n1 THEN n2 ELSE export_end)

\* -------------------------------------------------------- format_value
\* Python values, tagged with their type.
NoneV == [kind |-> "none"]
StrV(s) == [kind |-> "str", s |-> s]
BoolV(b) == [kind |-> "bool", b |-> b]
IntV(n) == [kind |-> "int", n |-> n]
FloatV(x) == [kind |-> "float", x |-> x]
\* The call raised.
Raise(exc) == [kind |-> "raise", exc |-> exc]

\* schema["type"]: a single type name, a list of them, or no such key.
SingleType(t) == [kind |-> "single", t |-> t]
ListType(ts) == [kind |-> "list", ts |-> ts]
NoType == [kind |-> "absent"]

\* l. 40-43: field_type.
field_type(schema) ==
    IF schema.type.kind = "list" THEN schema.type.ts ELSE <<schema.type.t>>

InSeq(x, seq) == \E i \in 1..Len(seq) : seq[i] = x

\* Mutant: only None is taken for null.
IsNullEquivalent_NoneOnly(value) == value.kind = "none"

\* l. 45: value in [None, "", 'null'].
IsNullEquivalent(value) ==
    \/ value.kind = "none"
    \/ (value.kind = "str" /\ value.s \in {"", "null"})

\* l. 48: pendulum.parse(value).isoformat().
ParseIsoformat(value) ==
    IF value.kind # "str" THEN Raise("TypeError")
    ELSE CASE value.s = "2017-01-01T00:00:00Z" -> StrV("2017-01-01T00:00:00+00:00")
           [] value.s = "2017-01-01" -> StrV("2017-01-01T00:00:00+00:00")
           [] OTHER -> Raise("ParserError")

\* l. 50: int(value).
ToInt(value) ==
    CASE value.kind = "int" -> value
      [] value.kind = "bool" -> IntV(IF value.b THEN 1 ELSE 0)
      [] value.kind = "str" /\ value.s = "12" -> IntV(12)
      [] value.kind = "str" /\ value.s = "0" -> IntV(0)
      [] OTHER -> Raise("ValueError")

\* l. 52: str(value).
ToStr(value) ==
    CASE value.kind = "str" -> value
      [] value.kind = "bool" -> StrV(IF value.b THEN "True" ELSE "False")
      [] value.kind = "int" /\ value.n = 12 -> StrV("12")
      [] value.kind = "int" /\ value.n = 0 -> StrV("0")
      [] OTHER -> StrV("None")

\* l. 54: float(value).
ToFloat(value) ==
    CASE value.kind = "int" /\ value.n = 12 -> FloatV("12.0")
      [] value.kind = "int" /\ value.n = 0 -> FloatV("0.0")
      [] value.kind = "bool" -> FloatV(IF value.b THEN "1.0" ELSE "0.0")
      [] value.kind = "str" /\ value.s = "12" -> FloatV("12.0")
      [] value.kind = "str" /\ value.s = "0" -> FloatV("0.0")
      [] value.kind = "str" /\ value.s = "1.5" -> FloatV("1.5")
      [] value.kind = "none" -> Raise("TypeError")
      [] OTHER -> Raise("ValueError")

\* l. 56-58: a bool as it is, else value.lower() == "true".
ToBool(value) ==
    CASE value.kind = "bool" -> value
      [] value.kind = "str" -> BoolV(value.s \in {"true", "TRUE", "True"})
      [] OTHER -> Raise("AttributeError")

\* format_value, l. 39-60.
format_value(value, schema) ==
    IF schema.type.kind = "absent" THEN Raise("KeyError")
    ELSE IF IsNullEquivalent(value) THEN NoneV
    ELSE IF schema.format = "date-time" THEN ParseIsoformat(value)
    ELSE IF InSeq("integer", field_type(schema)) THEN ToInt(value)
    ELSE IF InSeq("string", field_type(schema)) THEN ToStr(value)
    ELSE IF InSeq("number", field_type(schema)) THEN ToFloat(value)
    ELSE IF InSeq("boolean", field_type(schema)) THEN ToBool(value)
    ELSE value

\* The raw values and field schemas format_value is applied to.
RawValues ==
    {NoneV, StrV(""), StrV("null"), StrV("12"), StrV("0"), StrV("1.5"), StrV("abc"),
     StrV("true"), StrV("TRUE"), StrV("false"), StrV("2017-01-01T00:00:00Z"),
     BoolV(TRUE), BoolV(FALSE), IntV(12), IntV(0)}

DeclaredTypes ==
    {SingleType(t) : t \in {"integer", "string", "number", "boolean", "object"}}
    \cup {ListType(<<"null", t>>) : t \in {"integer", "string", "number", "boolean"}}
    \cup {ListType(<<"string", "integer">>), ListType(<<>>), NoType}

FieldSchemas ==
    {[type |-> t, format |-> f] : t \in DeclaredTypes, f \in {"none", "date-time"}}

\* No call of format_value under way.
NoCall ==
    [value |-> NoneV, schema |-> [type |-> NoType, format |-> "none"],
     called |-> FALSE, result |-> NoneV]

\* ------------------------------------------------------------ the client
\* Mutant: the remote is not asked, a bookmarked id is taken as available.
export_available_Unchecked(export_id, avail) == export_id # None

\* client.export_available: an absent id is never available; whether a known
\* job is still there is the remote's word (avail).
export_available(export_id, avail) == export_id # None /\ avail

\* client.create_export: the job is appended and its index is its id.
create_export(kind, field, startAt, endAt) ==
    Append(exports, [kind |-> kind, field |-> field, start |-> startAt, end |-> endAt])

\* client.stream_export for a leads job: the rows whose queried field lies in
\* the job's own window [start, end).
LeadExportRows(export_id) ==
    LET e == exports[export_id]
    IN RowSeq({r \in data.leads : e.start <= r[e.field] /\ r[e.field] < e.end})

\* client.stream_export for an activities job (createdAt proxies activityDate).
ActivityExportRows(export_id) ==
    LET e == exports[export_id]
    IN RowSeq({r \in data.activities : e.start <= r.activityDate /\ r.activityDate < e.end})

\* client.request on a token-paginated endpoint: the first page without a
\* token, page t with token t; every page but the last carries nextPageToken.
PageResponse(token) ==
    LET k == IF token = None THEN 1 ELSE token
    IN [result |-> data.pages[k],
        nextPageToken |-> IF k < Len(data.pages) THEN k + 1 ELSE None]

\* client.request on programs.json: a block of up to maxReturn rows at the
\* offset, or the no-assets warning past the last block.
ProgramsResponse(offset) ==
    LET k == (offset \div MAX_RETURN) + 1
    IN IF k <= Len(data.programs)
       THEN [result |-> data.programs[k], no_assets |-> FALSE]
       ELSE [result |-> <<>>, no_assets |-> TRUE]

\* The clock readings a call of pendulum.utcnow() can return after a reading
\* of t: the same instant, or one clock step later.
ClockReads(t) == {t, t + MaxClockStep}

\* ------------------------------------------------------------ scenarios
Stream(id, selected) == [id |-> id, selected |-> selected]

LeadRow(id, created, updated) ==
    [id |-> id, createdAt |-> BaseTime + created * Day,
     updatedAt |-> BaseTime + updated * Day]

\* Lead populations: none; one lead created early and updated late with one
\* created in between; one old lead, with one last updated a day before the
\* bookmark.
LeadPopulations ==
    {{},
     {LeadRow(1, 3, 40), LeadRow(2, 35, 35)},
     {LeadRow(3, 3, 3), LeadRow(5, -2, -1)}}

\* A population for a longer backlog: the early lead is updated after the
\* second export window.
LatePopulation == {LeadRow(2, 35, 35), LeadRow(4, 3, 62)}

ActivityRow(id, at, attrType) ==
    [id |-> id, activityDate |-> BaseTime + at * Day, attrType |-> attrType]

\* Activity populations; attrType is the value of a "type" attribute in the
\* row's attribute bag ("none": the bag has no such key).
ActivityPopulations ==
    {{},
     {ActivityRow(1, 35, "string")},
     {ActivityRow(1, 3, "string"), ActivityRow(2, 35, "none")}}

\* Page k of a token-paginated listing: one row at or before the bookmark,
\* one row after it.
ListPage(k) ==
    <<[id |-> 2 * k - 1, updatedAt |-> BaseTime - (k % 2)],
      [id |-> 2 * k, updatedAt |-> BaseTime + k]>>

ListPages(n) == [k \in 1..n |-> ListPage(k)]

NoData == [leads |-> {}, activities |-> {}, pages |-> ListPages(1),
           programs |-> <<>>, types |-> {1}]

\* A scenario: the catalog, the client's mode, the bookmark every stream
\* starts from, the time the tap is started at, the marker and the remote's
\* data.
ScenarioFrom(cat, corona, bookmark, start, marker, d) ==
    [catalog |-> cat, use_corona |-> corona, bookmark |-> bookmark,
     now |-> start, marker |-> marker, data |-> d]

Scenario(cat, corona, start, marker, d) ==
    ScenarioFrom(cat, corona, BaseTime, start, marker, d)

LeadsScenarios ==
    {Scenario(<<Stream("leads", TRUE)>>, corona, BaseTime + 45 * Day, NoStream,
              [NoData EXCEPT !.leads = rows]) :
        corona \in BOOLEAN, rows \in LeadPopulations}
    \cup
    {Scenario(<<Stream("leads", TRUE)>>, FALSE, BaseTime + 65 * Day, NoStream,
              [NoData EXCEPT !.leads = LatePopulation])}

ActivitiesScenarios ==
    {Scenario(<<Stream("activities_1", TRUE)>>, FALSE, BaseTime + 45 * Day,
              NoStream, [NoData EXCEPT !.activities = rows]) :
        rows \in ActivityPopulations}

PaginatedScenarios ==
    {Scenario(<<Stream(id, TRUE)>>, FALSE, BaseTime + 10 * Day, NoStream,
              [NoData EXCEPT !.pages = ListPages(n)]) :
        id \in {"campaigns", "lists"}, n \in 1..MaxPages}

\* A bookmark that is not on a whole second.
SubSecondBookmark == BaseTime + TicksPerSecond - 1

\* sync_leads in update-time mode, started within the second of its
\* bookmark, with a lead last updated a day before the bookmark.
SameSecondScenarios ==
    {ScenarioFrom(<<Stream("leads", TRUE)>>, TRUE, SubSecondBookmark,
                  SubSecondBookmark, NoStream,
                  [NoData EXCEPT !.leads =
                      {[id |-> 6, createdAt |-> SubSecondBookmark - Day,
                        updatedAt |-> SubSecondBookmark - Day]}])}

\* sync_programs over a listing of no block, one block or more.
ProgramsScenarios ==
    {Scenario(<<Stream("programs", TRUE)>>, FALSE, BaseTime + 10 * Day, NoStream,
              [NoData EXCEPT !.programs = ListPages(n)]) :
        n \in 0..(MaxPages - 1)}

\* The orchestrator's scenarios: a catalog with, for the marker, none or one
\* left by an earlier run (which may name a stream since deselected, or
\* dropped from the catalog).
SyncCatalogs ==
    {[streams |-> <<Stream("activity_types", TRUE), Stream("campaigns", FALSE),
                    Stream("lists", TRUE), Stream("programs", TRUE)>>,
      markers |-> {NoStream, "lists", "campaigns", "widgets"}],
     [streams |-> <<Stream("lists", TRUE), Stream("widgets", TRUE),
                    Stream("programs", TRUE)>>,
      markers |-> {NoStream, "programs"}],
     [streams |-> <<Stream("programs", TRUE), Stream("activities_1", TRUE),
                    Stream("campaigns", TRUE)>>,
      markers |-> {NoStream, "campaigns"}]}

SyncData ==
    [leads |-> {},
     activities |-> {ActivityRow(2, 3, "none")},
     pages |-> ListPages(2),
     programs |-> <<ListPage(1)>>,
     types |-> {1, 2}]

SyncScenarios ==
    UNION {{Scenario(cat.streams, FALSE, BaseTime + 10 * Day, marker, SyncData) :
               marker \in cat.markers} : cat \in SyncCatalogs}

Scenarios ==
    LeadsScenarios \cup ActivitiesScenarios \cup PaginatedScenarios
        \cup ProgramsScenarios \cup SameSecondScenarios \cup SyncScenarios

InitLoc ==
    [export_start |-> None, job_started |-> None, initial_bookmark |-> None,
     max_bookmark |-> None, export_id |-> None, export_end |-> None,
     record_count |-> 0, next_page_token |-> None, start_date |-> None,
     end_date |-> None, offset |-> 0, reported |-> FALSE,
     first_request |-> None]

InitStateFrom(marker, bookmark) ==
    [currently_syncing |-> marker,
     bookmarks |-> [id \in StreamIds |-> [EmptyBookmark EXCEPT !.cursor = bookmark]]]

InitState(marker) == InitStateFrom(marker, BaseTime)

InitHist(st) ==
    [initial |-> st, runStart |-> st, catStart |-> st, winCursor |-> None,
     prevEnd |-> "none", prevWrite |-> "none", prevCat |-> NoStream,
     prevState |-> st]

Init ==
    \E sc \in Scenarios :
        /\ catalog = sc.catalog
        /\ use_corona = sc.use_corona
        /\ data = sc.data
        /\ now = sc.now
        /\ state = InitStateFrom(sc.marker, sc.bookmark)
        /\ persisted = InitStateFrom(sc.marker, sc.bookmark)
        /\ hist = InitHist(InitStateFrom(sc.marker, sc.bookmark))
        /\ exports = <<>>
        /\ pc = "start"
        /\ idx = 0
        /\ starting_stream = NoStream
        /\ loc = InitLoc
        /\ emitted = <<>>
        /\ requests = <<>>
        /\ ran = <<>>
        /\ windows = <<>>
        /\ run = 1
        /\ lastWrite = "none"
        /\ error = "none"
        /\ metrics = <<>>
        /\ fmt = NoCall

\* --------------------------------------------------------------- sync
CurrentStream == catalog[idx]

\* Mutant: the marker is ignored, only unselected streams are skipped.
SkipStream_IgnoresMarker(stream, starting) == ~stream.selected

\* The two `continue` tests of sync's loop: unselected, or not the stream a
\* resumed run starts at.
SkipStream(stream, starting) ==
    \/ ~stream.selected
    \/ (starting # NoStream /\ stream.id # starting)

\* The position sync's dispatch enters for a stream id ("abort": no branch).
DriverEntry(id) ==
    CASE id = "activity_types" -> "activity_types"
      [] id = "leads" -> "leads_start"
      [] id \in {"activities_1"} -> "activities_start"
      [] id \in {"campaigns", "lists"} -> "paginated_start"
      [] id = "programs" -> "programs_start"
      [] OTHER -> "abort"

\* sync, l. 374-378: read the marker.
SyncBegin ==
    /\ pc = "start"
    /\ starting_stream' = get_currently_syncing(state)
    /\ idx' = 1
    /\ pc' = "sync_loop"
    /\ lastWrite' = "none"
    /\ UNCHANGED <<env, exports, now, state, persisted, loc, emitted, requests,
                   ran, windows, run, error, metrics, hist>>

\* sync, l. 380-389: a stream that is skipped.
SyncSkip ==
    /\ pc = "sync_loop"
    /\ idx <= Len(catalog)
    /\ SkipStream(CurrentStream, starting_stream)
    /\ idx' = idx + 1
    /\ lastWrite' = "none"
    /\ UNCHANGED <<env, exports, now, state, persisted, pc, starting_stream, loc,
                   emitted, requests, ran, windows, run, error, metrics, hist>>

\* sync, l. 391-411: set and write the marker, enter the stream's driver
\* (write_schema is not modelled), or raise for an id no branch matches.
SyncDispatch ==
    /\ pc = "sync_loop"
    /\ idx <= Len(catalog)
    /\ ~SkipStream(CurrentStream, starting_stream)
    /\ starting_stream' = NoStream
    /\ state' = set_currently_syncing(state, CurrentStream.id)
    /\ persisted' = write_state(state')
    /\ lastWrite' = "marker"
    /\ hist' = [hist EXCEPT !.catStart = persisted]
    /\ ran' = Append(ran, CurrentStream.id)
    /\ loc' = InitLoc
    /\ windows' = <<>>
    /\ IF DriverEntry(CurrentStream.id) = "abort"
       THEN pc' = "failed" /\ error' = "NotImplemented"
       ELSE pc' = DriverEntry(CurrentStream.id) /\ error' = error
    /\ UNCHANGED <<env, exports, now, idx, emitted, requests, run, metrics>>

\* sync, l. 413-421: the record-count metric, then clear and write the marker.
SyncAfter ==
    /\ pc = "returned"
    /\ metrics' = Append(metrics, [stream |-> CurrentStream.id,
                                     value |-> loc.record_count])
    /\ state' = set_currently_syncing(state, NoStream)
    /\ persisted' = write_state(state')
    /\ lastWrite' = "marker"
    /\ idx' = idx + 1
    /\ pc' = "sync_loop"
    /\ UNCHANGED <<env, exports, now, starting_stream, loc, emitted, requests,
                   ran, windows, run, error, hist>>

\* sync, l. 423-427: the loop is over, sync returns.
SyncFinish ==
    /\ pc = "sync_loop"
    /\ idx > Len(catalog)
    /\ pc' = "done"
    /\ lastWrite' = "none"
    /\ UNCHANGED <<env, exports, now, state, persisted, idx, starting_stream, loc,
                   emitted, requests, ran, windows, run, error, metrics, hist>>

\* ------------------------------------------------------- format_values
FieldSchema(selected, inclusion) == [selected |-> selected, inclusion |-> inclusion]

\* stream["schema"]["properties"]: per field, whether it is selected and its
\* inclusion.  Every schema has a field its rows carry that is neither
\* selected nor automatic, or a selected field its rows lack.
Schema(id) ==
    CASE id = "leads" ->
           [id |-> FieldSchema(FALSE, "automatic"),
            updatedAt |-> FieldSchema(FALSE, "automatic"),
            createdAt |-> FieldSchema(FALSE, "available"),
            email |-> FieldSchema(TRUE, "available")]
      [] id = "activities_1" ->
           [id |-> FieldSchema(FALSE, "automatic"),
            activityDate |-> FieldSchema(FALSE, "automatic"),
            leadId |-> FieldSchema(TRUE, "available")]
      [] id = "activity_types" ->
           [id |-> FieldSchema(FALSE, "automatic"),
            name |-> FieldSchema(FALSE, "available")]
      [] OTHER ->
           [id |-> FieldSchema(FALSE, "automatic"),
            updatedAt |-> FieldSchema(FALSE, "automatic"),
            name |-> FieldSchema(TRUE, "available"),
            workspace |-> FieldSchema(FALSE, "available")]

\* l. 66 (and 134-135): the fields that are selected or automatic.
IncludedFields(id) ==
    {f \in DOMAIN Schema(id) :
        Schema(id)[f].selected \/ Schema(id)[f].inclusion = "automatic"}

\* format_values: one entry per included field, row.get(field) formatted (an
\* absent field gives None; instants and ids are kept in canonical form).
format_values(id, row) ==
    [f \in IncludedFields(id) |-> IF f \in DOMAIN row THEN row[f] ELSE None]

\* The keys of a stream descriptor.
DescriptorKeys ==
    {"tap_stream_id", "schema", "metadata", "key_properties", "replication_key"}

\* l. 247: the keys of format_value(stream, row) when it does not raise: the
\* row's "type" attribute stands for the declared type, so "string" gives
\* str(stream), which has no keys, and a value that names no type gives the
\* descriptor itself.
ActivityRecordKeys(row) ==
    IF row.attrType = "string" THEN {} ELSE DescriptorKeys

\* What write_record is handed, with the context it was emitted in: the run,
\* the window or page, the stream's cursor as persisted when the run started
\* and when that window began, whether the record went through
\* format_values, and the record's keys.
Record(stream, row, rk, win, formatted) ==
    [stream |-> stream, id |-> row.id, rk |-> rk, run |-> run, win |-> win,
     started |-> get_bookmark(hist.runStart, stream, "cursor"),
     cursor |-> hist.winCursor, formatted |-> formatted,
     keys |-> IF formatted THEN DOMAIN format_values(stream, row)
              ELSE ActivityRecordKeys(row)]

\* ------------------------------------------------- the export window steps
\* get_or_create_export_for_leads / _for_activities: reuse the bookmarked job
\* when the remote still has it, else create one for [export_start,
\* get_export_end) and write its id and end to the state.  loc.reported
\* keeps the remote's word: it reported the bookmarked job available.
GetOrCreateExport(id, kind, field, next_pc) ==
    \E avail \in BOOLEAN, n1 \in ClockReads(now) :
      \E n2 \in ClockReads(n1) :
        LET bookmarked == get_bookmark(state, id, "export_id")
            reuse == export_available(bookmarked, avail)
            export_end == IF reuse THEN get_bookmark(state, id, "export_end")
                          ELSE get_export_end(loc.export_start, n1, n2)
            export_id == IF reuse THEN bookmarked ELSE Len(exports) + 1
        IN /\ reuse => (n1 = now /\ n2 = now)
           /\ ~reuse => Len(exports) < MaxExports
           /\ exports' = IF reuse THEN exports
                         ELSE create_export(kind, field, loc.export_start, export_end)
           /\ requests' = IF reuse THEN requests
                          ELSE Append(requests, [run |-> run, stream |-> id,
                                                 call |-> "create_export",
                                                 arg |-> loc.export_start])
           /\ state' = IF reuse THEN state
                       ELSE update_state_with_export_info(state, id, None,
                                                          export_id, export_end)
           /\ persisted' = IF reuse THEN persisted ELSE write_state(state')
           /\ lastWrite' = IF reuse THEN "none" ELSE "export"
           /\ now' = n2
           /\ loc' = [loc EXCEPT !.export_id = export_id, !.export_end = export_end,
                                 !.reported = (bookmarked # None /\ avail)]
           /\ windows' = Append(windows, <<loc.export_start, export_end>>)
           /\ hist' = [hist EXCEPT !.winCursor = get_bookmark(persisted, id, "cursor")]
           /\ pc' = next_pc
           /\ UNCHANGED <<env, idx, starting_stream, emitted, ran, run, error, metrics>>

\* Mutant: on failure the export info is left in the state.
wait_for_export_KeepsExport(id, ok, next_pc) ==
    /\ IF ok
       THEN /\ pc' = next_pc
            /\ lastWrite' = "none"
            /\ UNCHANGED <<state, persisted, error>>
       ELSE /\ lastWrite' = "none"
            /\ pc' = "failed"
            /\ error' = "ExportFailed"
            /\ UNCHANGED <<state, persisted>>
    /\ UNCHANGED <<env, exports, now, idx, starting_stream, loc, emitted, requests,
                   ran, windows, run, metrics, hist>>

\* wait_for_export: the job succeeds, or fails: then the export info is
\* cleared and written and ExportFailed is raised again.
wait_for_export(id, ok, next_pc) ==
    /\ IF ok
       THEN /\ pc' = next_pc
            /\ lastWrite' = "none"
            /\ UNCHANGED <<state, persisted, error>>
       ELSE /\ state' = update_state_with_export_info(state, id, None, None, None)
            /\ persisted' = write_state(state')
            /\ lastWrite' = "export_clear"
            /\ pc' = "failed"
            /\ error' = "ExportFailed"
    /\ UNCHANGED <<env, exports, now, idx, starting_stream, loc, emitted, requests,
                   ran, windows, run, metrics, hist>>

\* -------------------------------------------------------------- sync_leads
\* l. 205-212: the bookmark, the attribution window, the job's start time.
LeadsStart ==
    /\ pc = "leads_start"
    /\ \E n \in ClockReads(now) :
         LET bookmark == get_bookmark(state, "leads", "cursor")
         IN /\ now' = n
            /\ loc' = [InitLoc EXCEPT
                         !.initial_bookmark = bookmark,
                         !.export_start =
                             IF use_corona
                             THEN bookmark - ATTRIBUTION_WINDOW_DAYS * Day
                             ELSE bookmark,
                         !.job_started = n,
                         !.max_bookmark = bookmark]
    /\ pc' = "leads_loop"
    /\ lastWrite' = "none"
    /\ UNCHANGED <<env, exports, state, persisted, idx, starting_stream, emitted,
                   requests, ran, windows, run, error, metrics, hist>>

\* l. 213: the loop test of the two window loops.
MoreWindows == loc.export_start < loc.job_started

\* l. 214.
LeadsExport ==
    /\ pc = "leads_loop"
    /\ MoreWindows
    /\ GetOrCreateExport("leads", "leads",
                         IF use_corona THEN "updatedAt" ELSE "createdAt",
                         "leads_wait")

\* l. 215.
LeadsWait ==
    /\ pc = "leads_wait"
    /\ \E ok \in BOOLEAN : wait_for_export(CurrentStream.id, ok, "leads_rows")

\* Mutant: every row of the export is written.
LeadQualifies_Unfiltered(row) == TRUE

\* Mutant: rows are filtered on their timestamp in either mode.
LeadQualifies_Filtered(row) == row.updatedAt >= loc.initial_bookmark

\* l. 220-227: whether a row of the export is written.
LeadQualifies(row) ==
    use_corona \/ row.updatedAt >= loc.initial_bookmark

\* l. 221, 225: max_bookmark after the rows of one export.
LeadsMaxBookmark(rows) ==
    IF use_corona
    THEN IF rows = <<>> THEN loc.max_bookmark ELSE loc.export_end
    ELSE LET seen == {loc.max_bookmark} \cup
                     {rows[i].updatedAt : i \in {j \in 1..Len(rows) : LeadQualifies(rows[j])}}
         IN CHOOSE m \in seen : \A x \in seen : x <= m

\* l. 231: where the next window starts.
NextExportStart == loc.export_end

\* l. 216-231: stream the rows, write the qualifying ones, write the
\* bookmark (which clears the export info) and move to the next window.
LeadsRows ==
    /\ pc = "leads_rows"
    /\ LET rows == LeadExportRows(loc.export_id)
           written == SelectSeq(rows, LeadQualifies)
           max_bookmark == LeadsMaxBookmark(rows)
       IN /\ emitted' = emitted \o
                 [i \in 1..Len(written) |->
                     Record("leads", written[i], written[i].updatedAt,
                            Len(windows), TRUE)]
          /\ state' = update_state_with_export_info(state, CurrentStream.id,
                                                      max_bookmark, None, None)
          /\ loc' = [loc EXCEPT !.max_bookmark = max_bookmark,
                                !.record_count = @ + Len(written),
                                !.export_start = NextExportStart]
    /\ persisted' = write_state(state')
    /\ lastWrite' = "cursor"
    /\ pc' = "leads_loop"
    /\ UNCHANGED <<env, exports, now, idx, starting_stream, requests, ran, windows,
                   run, error, metrics, hist>>

\* l. 233: the loop is over.
LeadsReturn ==
    /\ pc = "leads_loop"
    /\ ~MoreWindows
    /\ pc' = "returned"
    /\ lastWrite' = "none"
    /\ UNCHANGED <<env, exports, now, state, persisted, idx, starting_stream, loc,
                   emitted, requests, ran, windows, run, error, metrics, hist>>

\* --------------------------------------------------------- sync_activities
\* l. 239-241.
ActivitiesStart ==
    /\ pc = "activities_start"
    /\ \E n \in ClockReads(now) :
         /\ now' = n
         /\ loc' = [InitLoc EXCEPT
                      !.export_start = get_bookmark(state, CurrentStream.id, "cursor"),
                      !.job_started = n]
    /\ pc' = "activities_loop"
    /\ lastWrite' = "none"
    /\ UNCHANGED <<env, exports, state, persisted, idx, starting_stream, emitted,
                   requests, ran, windows, run, error, metrics, hist>>

\* l. 243.
ActivitiesExport ==
    /\ pc = "activities_loop"
    /\ MoreWindows
    /\ GetOrCreateExport(CurrentStream.id, "activities", "createdAt",
                         "activities_wait")

\* l. 244.
ActivitiesWait ==
    /\ pc = "activities_wait"
    /\ \E ok \in BOOLEAN : wait_for_export(CurrentStream.id, ok, "activities_rows")

\* l. 247: format_value(stream, row) takes the flattened row for the field
\* schema, so schema["type"] is the row's "type" attribute: a KeyError when
\* the row has none, and otherwise the stream descriptor, stringified, is
\* what gets written.
ActivityRowRaises(row) == row.attrType = "none"

\* The rows handled before the first one that raises.
HandledBeforeError(rows) ==
    LET bad == {i \in 1..Len(rows) : ActivityRowRaises(rows[i])}
    IN IF bad = {} THEN rows
       ELSE SubSeq(rows, 1, (CHOOSE i \in bad : \A j \in bad : i <= j) - 1)

\* l. 251: the bookmark sync_activities writes after a window.
ActivitiesBookmark == loc.export_start

\* l. 245-252: stream and write the rows, then write the bookmark and move
\* to the next window; or stop at the row that raises.
ActivitiesRows ==
    /\ pc = "activities_rows"
    /\ LET rows == ActivityExportRows(loc.export_id)
           written == HandledBeforeError(rows)
           raised == Len(written) < Len(rows)
       IN /\ emitted' = emitted \o
                 [i \in 1..Len(written) |->
                     Record(CurrentStream.id, written[i], written[i].activityDate,
                            Len(windows), FALSE)]
          /\ IF raised
             THEN /\ pc' = "failed"
                  /\ error' = "KeyError"
                  /\ lastWrite' = "none"
                  /\ loc' = [loc EXCEPT !.record_count = @ + Len(written)]
                  /\ UNCHANGED <<state, persisted>>
             ELSE /\ state' = update_state_with_export_info(
                                  state, CurrentStream.id, ActivitiesBookmark,
                                  None, None)
                  /\ persisted' = write_state(state')
                  /\ lastWrite' = "cursor"
                  /\ loc' = [loc EXCEPT !.record_count = @ + Len(written),
                                        !.export_start = NextExportStart]
                  /\ pc' = "activities_loop"
                  /\ error' = error
    /\ UNCHANGED <<env, exports, now, idx, starting_stream, requests, ran, windows,
                   run, metrics, hist>>

\* l. 254.
ActivitiesReturn ==
    /\ pc = "activities_loop"
    /\ ~MoreWindows
    /\ pc' = "returned"
    /\ lastWrite' = "none"
    /\ UNCHANGED <<env, exports, now, state, persisted, idx, starting_stream, loc,
                   emitted, requests, ran, windows, run, error, metrics, hist>>

\* ----------------------------------------------------------- sync_paginated
\* The time of the first client.request of the running driver: kept once
\* set, else the time of the request being made.
FirstRequest == IF loc.first_request = None THEN now ELSE loc.first_request

\* Mutant: the stored page token is not used.
SeedToken_Ignored(st, id) == None

\* l. 320-322: the page token the first request carries.
SeedToken(st, id) == get_bookmark(st, id, "next_page_token")

\* l. 313-326: the bookmark, the stored page token, the job's start time.
PaginatedStart ==
    /\ pc = "paginated_start"
    /\ \E n \in ClockReads(now) :
         /\ now' = n
         /\ loc' = [InitLoc EXCEPT
                      !.start_date = get_bookmark(state, CurrentStream.id, "cursor"),
                      !.next_page_token = SeedToken(state, CurrentStream.id),
                      !.job_started = n]
    /\ pc' = "paginated_loop"
    /\ lastWrite' = "none"
    /\ hist' = [hist EXCEPT
                  !.winCursor = get_bookmark(persisted, CurrentStream.id, "cursor")]
    /\ UNCHANGED <<env, exports, state, persisted, idx, starting_stream, emitted,
                   requests, ran, windows, run, error, metrics>>

\* Mutant: a row exactly at the bookmark is held back.
NewerThanStart_Strict(row) == row.updatedAt > loc.start_date

\* l. 335 (and 291): whether a formatted row is written.
NewerThanStart(row) == row.updatedAt >= loc.start_date

\* Mutant: the bookmark is set to the time at completion.
PaginatedFinished_AtCompletion(st, id) ==
    write_bookmark(write_bookmark(st, id, "next_page_token", None),
                   id, "cursor", now')

\* l. 350-351: the state once the results are exhausted.
PaginatedFinished(st, id) ==
    write_bookmark(write_bookmark(st, id, "next_page_token", None),
                   id, "cursor", loc.job_started)

\* l. 328-352: one pass of the loop: request a page (the response may take
\* a clock step to arrive), write its rows, then store the page's token and
\* go on, or clear the token, set the bookmark and return.
PaginatedPage ==
    /\ pc = "paginated_loop"
    /\ now' \in ClockReads(now)
    /\ LET id == CurrentStream.id
           page == PageResponse(loc.next_page_token)
           written == SelectSeq(page.result, NewerThanStart)
           more == page.nextPageToken # None
       IN /\ requests' = Append(requests, [run |-> run, stream |-> id,
                                            call |-> "request",
                                            arg |-> loc.next_page_token])
          /\ emitted' = emitted \o
                 [i \in 1..Len(written) |->
                     Record(id, written[i], written[i].updatedAt,
                            IF loc.next_page_token = None THEN 1
                            ELSE loc.next_page_token, TRUE)]
          /\ loc' = [loc EXCEPT !.record_count = @ + Len(written),
                                !.next_page_token =
                                    IF more THEN page.nextPageToken ELSE @,
                                !.first_request = FirstRequest]
          /\ state' = IF more
                      THEN write_bookmark(state, id, "next_page_token",
                                          page.nextPageToken)
                      ELSE PaginatedFinished(state, id)
          /\ lastWrite' = IF more THEN "token" ELSE "cursor"
          /\ pc' = IF more THEN "paginated_loop" ELSE "returned"
    /\ persisted' = write_state(state')
    /\ UNCHANGED <<env, exports, idx, starting_stream, ran, windows, run,
                   error, metrics, hist>>

\* ------------------------------------------------------------ sync_programs
\* l. 268-278.
ProgramsStart ==
    /\ pc = "programs_start"
    /\ \E n \in ClockReads(now) :
         /\ now' = n
         /\ loc' = [InitLoc EXCEPT
                      !.start_date = get_bookmark(state, "programs", "cursor"),
                      !.end_date = n,
                      !.offset = 0]
    /\ pc' = "programs_loop"
    /\ lastWrite' = "none"
    /\ hist' = [hist EXCEPT !.winCursor = get_bookmark(persisted, "programs", "cursor")]
    /\ UNCHANGED <<env, exports, state, persisted, idx, starting_stream, emitted,
                   requests, ran, windows, run, error, metrics>>

\* Mutant: the bookmark is set to the time at completion.
ProgramsBookmark_AtCompletion == now'

\* l. 300: the bookmark sync_programs writes once the listing is exhausted.
ProgramsBookmark == loc.end_date

\* l. 280-301: one pass of the loop: request the block at the offset (the
\* response may take a clock step to arrive); on the no-assets warning write
\* the bookmark and return, else write the rows and advance the offset.
ProgramsPage ==
    /\ pc = "programs_loop"
    /\ now' \in ClockReads(now)
    /\ LET resp == ProgramsResponse(loc.offset)
           written == SelectSeq(resp.result, NewerThanStart)
       IN /\ requests' = Append(requests, [run |-> run, stream |-> "programs",
                                            call |-> "request", arg |-> loc.offset,
                                            earliestUpdatedAt |-> loc.start_date,
                                            latestUpdatedAt |-> loc.end_date])
          /\ IF resp.no_assets
             THEN /\ state' = write_bookmark(state, "programs", "cursor",
                                               ProgramsBookmark)
                  /\ persisted' = write_state(state')
                  /\ lastWrite' = "cursor"
                  /\ pc' = "returned"
                  /\ loc' = [loc EXCEPT !.first_request = FirstRequest]
                  /\ emitted' = emitted
             ELSE /\ emitted' = emitted \o
                         [i \in 1..Len(written) |->
                             Record("programs", written[i], written[i].updatedAt,
                                    (loc.offset \div MAX_RETURN) + 1, TRUE)]
                  /\ loc' = [loc EXCEPT !.record_count = @ + Len(written),
                                        !.offset = @ + MAX_RETURN,
                                        !.first_request = FirstRequest]
                  /\ lastWrite' = "none"
                  /\ pc' = "programs_loop"
                  /\ UNCHANGED <<state, persisted>>
    /\ UNCHANGED <<env, exports, idx, starting_stream, ran, windows, run,
                   error, metrics, hist>>

\* ------------------------------------------------------ sync_activity_types
\* l. 361-370: one request, every row written, the state untouched.
ActivityTypes ==
    /\ pc = "activity_types"
    /\ LET rows == SeqOfIds(data.types)
       IN /\ emitted' = emitted \o
                 [i \in 1..Len(rows) |->
                     Record("activity_types", [id |-> rows[i]], None, 1, TRUE)]
          /\ loc' = [loc EXCEPT !.record_count = Len(rows)]
    /\ requests' = Append(requests, [run |-> run, stream |-> "activity_types",
                                      call |-> "request", arg |-> None])
    /\ pc' = "returned"
    /\ lastWrite' = "none"
    /\ UNCHANGED <<env, exports, now, state, persisted, idx, starting_stream, ran,
                   windows, run, error, metrics, hist>>

\* ----------------------------------------------------- the process's life
\* What a new invocation of the tap starts from: the last state written.
NewRun(how) ==
    /\ run < MaxRuns
    /\ run' = run + 1
    /\ state' = persisted
    /\ hist' = [hist EXCEPT !.runStart = persisted, !.catStart = persisted,
                            !.winCursor = None, !.prevEnd = how,
                            !.prevWrite = lastWrite,
                            !.prevCat = get_currently_syncing(persisted),
                            !.prevState = persisted]
    /\ pc' = "start"
    /\ idx' = 0
    /\ starting_stream' = NoStream
    /\ loc' = InitLoc
    /\ ran' = <<>>
    /\ windows' = <<>>
    /\ metrics' = <<>>
    /\ lastWrite' = "none"
    /\ error' = "none"
    /\ UNCHANGED <<env, exports, now, persisted, emitted, requests>>

\* The process is killed between two steps, so that what was not written is
\* lost, and the tap is invoked again.
Crash ==
    /\ pc \notin {"start", "done", "failed"}
    /\ NewRun("crashed")

\* The tap is invoked again after a run that returned or raised.
Restart ==
    /\ pc \in {"done", "failed"}
    /\ NewRun(pc)

Next ==
    \/ SyncBegin
    \/ SyncSkip
    \/ SyncDispatch
    \/ SyncAfter
    \/ SyncFinish
    \/ LeadsStart
    \/ LeadsExport
    \/ LeadsWait
    \/ LeadsRows
    \/ LeadsReturn
    \/ ActivitiesStart
    \/ ActivitiesExport
    \/ ActivitiesWait
    \/ ActivitiesRows
    \/ ActivitiesReturn
    \/ PaginatedStart
    \/ PaginatedPage
    \/ ProgramsStart
    \/ ProgramsPage
    \/ ActivityTypes
    \/ Crash
    \/ Restart

Spec == Init /\ [][Next]_vars

\* ------------------------------------------- format_value on its own
\* One call of format_value for every raw value and field schema.
FormatInit ==
    /\ \E v \in RawValues, sch \in FieldSchemas :
          fmt = [value |-> v, schema |-> sch, called |-> FALSE, result |-> NoneV]
    /\ catalog = <<>>
    /\ use_corona = FALSE
    /\ data = NoData
    /\ now = BaseTime
    /\ state = InitState(NoStream)
    /\ persisted = InitState(NoStream)
    /\ hist = InitHist(InitState(NoStream))
    /\ exports = <<>>
    /\ pc = "format_value"
    /\ idx = 0
    /\ starting_stream = NoStream
    /\ loc = InitLoc
    /\ emitted = <<>>
    /\ requests = <<>>
    /\ ran = <<>>
    /\ windows = <<>>
    /\ run = 1
    /\ lastWrite = "none"
    /\ error = "none"
    /\ metrics = <<>>

FormatValue ==
    /\ pc = "format_value"
    /\ ~fmt.called
    /\ fmt' = [fmt EXCEPT !.called = TRUE,
                          !.result = format_value(fmt.value, fmt.schema)]
    /\ UNCHANGED <<catalog, use_corona, data, exports, now, state, persisted, pc,
                   idx, starting_stream, loc, emitted, requests, ran, windows, run,
                   lastWrite, error, metrics, hist>>

FormatNext == FormatValue

FormatSpec == FormatInit /\ [][FormatNext]_vars

\* ===================================================================
\* Properties
\* ===================================================================
OnlyStream(id) == Len(catalog) = 1 /\ catalog[1].id = id

\* The field a leads export is queried by.
LeadsQueryField == IF use_corona THEN "updatedAt" ELSE "createdAt"

\* A run of sync_leads was killed right after a bookmark write (the export
\* id and end, or the cursor at the end of a window) and run again.
LeadsResumedAfterWrite ==
    /\ OnlyStream("leads")
    /\ run = 2
    /\ hist.prevEnd = "crashed"
    /\ hist.prevCat = "leads"
    /\ hist.prevWrite \in {"export", "cursor"}

\* A lead between the original bookmark and the end of the re-run's last
\* window.
LeadInRange(r) ==
    LET original == get_bookmark(hist.initial, "leads", "cursor")
    IN /\ original <= r[LeadsQueryField]
       /\ original <= r.updatedAt
       /\ r[LeadsQueryField] < loc.export_start

\* C1: when sync_leads is interrupted right after a bookmark write and run
\* again from the persisted state, every lead between the original bookmark
\* and the re-run's end has been written at least once by the two runs
\* together.
C1_ResumeSkipsNoRow ==
    (LeadsResumedAfterWrite /\ pc = "done") =>
        \A r \in data.leads :
            LeadInRange(r) =>
                \E i \in 1..Len(emitted) :
                    emitted[i].stream = "leads" /\ emitted[i].id = r.id

\* The same, in update-time (Corona) mode only.
C1_CoronaCheck == use_corona => C1_ResumeSkipsNoRow

\* C2 as stated: without Corona, no lead is written whose updatedAt is below
\* the leads bookmark persisted when its window began.
C2_NotBelowWindowCursor ==
    ~use_corona =>
        \A i \in 1..Len(emitted) :
            emitted[i].stream = "leads" => emitted[i].rk >= emitted[i].cursor

\* C2, amended: without Corona, no lead is written whose updatedAt is below
\* the leads bookmark persisted when the run began (initial_bookmark).
C2_NotBelowInitialBookmark ==
    ~use_corona =>
        \A i \in 1..Len(emitted) :
            emitted[i].stream = "leads" => emitted[i].rk >= emitted[i].started

\* A lead written in a later window although the bookmark had moved past it.
C2_Witness ==
    /\ ~use_corona
    /\ \E i \in 1..Len(emitted) :
         /\ emitted[i].stream = "leads"
         /\ emitted[i].win >= 2
         /\ emitted[i].rk < emitted[i].cursor
         /\ emitted[i].rk >= emitted[i].started

\* C3: after sync_activities has processed a window, the stream's persisted
\* cursor is that window's end.
C3_CursorIsWindowEnd ==
    (pc = "activities_loop" /\ windows # <<>>) =>
        get_bookmark(persisted, CurrentStream.id, "cursor") = Last(windows)[2]

\* ------------------------------------------------------------------ C4
Paginated(id) == id \in {"campaigns", "lists"}

PageIds(k) == {data.pages[k][i].id : i \in 1..Len(data.pages[k])}

\* A sync_paginated run over three pages was killed once page 2 had been
\* processed and its continuation token written, and the tap was run again.
ResumedAfterPage2 ==
    /\ Len(catalog) = 1
    /\ Paginated(catalog[1].id)
    /\ Len(data.pages) = 3
    /\ run = 2
    /\ hist.prevEnd = "crashed"
    /\ hist.prevWrite = "token"
    /\ get_bookmark(hist.prevState, catalog[1].id, "next_page_token") = 3

RequestsIn(r) == SelectSeq(requests, LAMBDA q : q.run = r)

\* C4: a paginated sync interrupted after page 2 of 3 resumes with the
\* persisted token: its requests carry that token, only page 3 is fetched,
\* and no row of page 1 or 2 is written again.
C4_ResumesAtPage3 ==
    ResumedAfterPage2 =>
        /\ \A i \in 1..Len(requests) :
              requests[i].run = 2 => requests[i].arg = 3
        /\ \A i \in 1..Len(emitted) :
              emitted[i].run = 2 =>
                  /\ emitted[i].id \in PageIds(3)
                  /\ emitted[i].id \notin PageIds(1) \cup PageIds(2)
        /\ pc = "done" => Len(RequestsIn(2)) = 1

\* The resumed run has fetched page 3, written a row of it and returned.
C4_Witness ==
    /\ ResumedAfterPage2
    /\ pc = "done"
    /\ \E i \in 1..Len(emitted) : emitted[i].run = 2 /\ emitted[i].win = 3

\* ------------------------------------------------------------------ C5
RECURSIVE Flatten(_)
\* The rows of a sequence of pages, in order.
Flatten(ps) == IF ps = <<>> THEN <<>> ELSE Head(ps) \o Flatten(Tail(ps))

\* sync_paginated has returned from an invocation that began with no stored
\* token.
PaginatedReturnedFromStart ==
    /\ pc = "returned"
    /\ Paginated(CurrentStream.id)
    /\ get_bookmark(hist.catStart, CurrentStream.id, "next_page_token") = None

\* The rows of all pages at or after the bookmark read at the start.
QualifyingRows ==
    SelectSeq(Flatten(data.pages),
              LAMBDA r : r.updatedAt >=
                             get_bookmark(hist.catStart, CurrentStream.id, "cursor"))

WrittenIds(r, stream) ==
    LET w == SelectSeq(emitted, LAMBDA e : e.run = r /\ e.stream = stream)
    IN [i \in 1..Len(w) |-> w[i].id]

\* C5: an uninterrupted sync_paginated over N pages, begun with no stored
\* token, writes exactly the rows of all pages at or after the bookmark, each
\* once, returns their count and leaves next_page_token cleared.
C5_PaginationExhaustion ==
    PaginatedReturnedFromStart =>
        /\ WrittenIds(run, CurrentStream.id) =
               [i \in 1..Len(QualifyingRows) |-> QualifyingRows[i].id]
        /\ loc.record_count = Len(QualifyingRows)
        /\ get_bookmark(persisted, CurrentStream.id, "next_page_token") = None

\* A listing of three pages has been exhausted, with rows written and rows
\* held back.
C5_Witness ==
    /\ PaginatedReturnedFromStart
    /\ Len(data.pages) = 3
    /\ Len(QualifyingRows) >= 3
    /\ Len(QualifyingRows) < Len(Flatten(data.pages))

\* ------------------------------------------------------------------ C6
Windowed(id) == id \in {"leads", "activities_1"}

\* C6: the windows one run of sync_leads or sync_activities processes are
\* contiguous (each end is the next start), and when the driver returns the
\* last window's end is at most the current time and at least the bookmark
\* the run started from.
C6_WindowContiguity ==
    /\ \A i \in 1..(Len(windows) - 1) : windows[i][2] = windows[i + 1][1]
    /\ (pc = "returned" /\ Windowed(CurrentStream.id) /\ windows # <<>>) =>
          /\ Last(windows)[2] <= now
          /\ Last(windows)[2] >=
                 get_bookmark(hist.catStart, CurrentStream.id, "cursor")

\* A windowed driver has returned after two windows or more.
C6_Witness ==
    /\ pc = "returned"
    /\ Windowed(CurrentStream.id)
    /\ Len(windows) >= 2

\* ------------------------------------------------------------------ C7
\* sync_leads has returned from a first run over a backlog of 45 days (the
\* bookmark lies 45 days before the second the run started in), with no
\* bookmarked export.
LeadsBacklog45Returned ==
    /\ OnlyStream("leads")
    /\ run = 1
    /\ pc = "returned"
    /\ TruncSecond(loc.job_started) = loc.initial_bookmark + 45 * Day

\* C7: over a 45-day backlog sync_leads performs exactly two window
\* iterations, [start, start + 30d) and [start + 30d, now), creating exactly
\* two export jobs, and leaves the export id and end cleared.
C7_TwoWindows ==
    LeadsBacklog45Returned =>
        LET start == IF use_corona
                     THEN loc.initial_bookmark - ATTRIBUTION_WINDOW_DAYS * Day
                     ELSE loc.initial_bookmark
        IN /\ Len(windows) = 2
           /\ windows[1] = <<start, start + MAX_EXPORT_DAYS * Day>>
           /\ windows[2][1] = start + MAX_EXPORT_DAYS * Day
           /\ windows[2][2] <= now
           /\ Len(exports) = 2
           /\ get_bookmark(persisted, "leads", "export_id") = None
           /\ get_bookmark(persisted, "leads", "export_end") = None

\* The same, when the run starts on a whole second.
C7_WholeSecondCheck ==
    (loc.job_started = TruncSecond(loc.job_started)) => C7_TwoWindows

\* ------------------------------------------------------------------ C8
\* The step in which wait_for_export raises ExportFailed.
ExportFailedStep == pc # "failed" /\ pc' = "failed" /\ error' = "ExportFailed"

\* C8: when the remote reports the export job failed, the stream's export id
\* and end are cleared in the persisted state, its cursor is left as it was,
\* no row of that window is written, and the error ends the run: no step of
\* that run follows, so nothing is retried and no job is created.
C8_ExportFailure ==
    [][/\ ExportFailedStep =>
            LET id == CurrentStream.id
            IN /\ get_bookmark(persisted', id, "export_id") = None
               /\ get_bookmark(persisted', id, "export_end") = None
               /\ get_bookmark(persisted', id, "cursor") =
                      get_bookmark(persisted, id, "cursor")
               /\ state' = persisted'
               /\ emitted' = emitted
               /\ \A i \in 1..Len(emitted) :
                     ~(/\ emitted[i].run = run
                       /\ emitted[i].stream = id
                       /\ emitted[i].win = Len(windows))
               /\ exports' = exports
       /\ (pc = "failed" /\ error = "ExportFailed") =>
            /\ run' = run + 1
            /\ exports' = exports
            /\ emitted' = emitted
            /\ persisted' = persisted]_vars

\* An export failed in a later window, after the cursor had been written.
C8_Witness ==
    /\ pc = "failed"
    /\ error = "ExportFailed"
    /\ Len(windows) >= 2
    /\ get_bookmark(persisted, CurrentStream.id, "export_id") = None

\* ------------------------------------------------------------------ C9
IsPrefix(s, t) == Len(s) <= Len(t) /\ s = SubSeq(t, 1, Len(s))

SelectedIds == {catalog[k].id : k \in {j \in 1..Len(catalog) : catalog[j].selected}}

\* The marker the run started with names a selected stream of the catalog.
ResumesAt(m) == m # NoStream /\ m \in SelectedIds

\* The marked stream and the selected streams after it, in catalog order.
FromMarker(m) ==
    LET k == CHOOSE j \in 1..Len(catalog) : catalog[j].id = m /\ catalog[j].selected
        rest == SelectSeq(SubSeq(catalog, k, Len(catalog)), LAMBDA st : st.selected)
    IN [i \in 1..Len(rest) |-> rest[i].id]

\* C9: when sync starts with the marker on a selected stream m, the drivers
\* entered are m and then the selected streams after m, in catalog order: no
\* stream before m and no unselected stream is run, and when sync returns all
\* of them have been run.
C9_ResumeOrder ==
    LET m == get_currently_syncing(hist.runStart)
    IN /\ \A i \in 1..Len(ran) : ran[i] \in SelectedIds
       /\ ResumesAt(m) =>
             /\ IsPrefix(ran, FromMarker(m))
             /\ pc = "done" => ran = FromMarker(m)

\* A resumed run has skipped a selected stream before the marked one, run the
\* marked one and the one after it, and returned.
C9_Witness ==
    LET m == get_currently_syncing(hist.runStart)
    IN /\ ResumesAt(m)
       /\ pc = "done"
       /\ Len(ran) >= 2
       /\ catalog[1].selected
       /\ catalog[1].id # m

\* ----------------------------------------------------------------- C10
DriverEntries ==
    {"activity_types", "leads_start", "activities_start", "paginated_start",
     "programs_start"}

\* C10: when a stream's sync ends in a fatal error, the bookmarks of every
\* other stream are as persisted before that stream started and the
\* persisted marker names the failed stream; the next run enters that stream
\* first, with the bookmarks as they were last persisted.
C10_FailureIsolation ==
    /\ pc = "failed" =>
          /\ \A id \in StreamIds \ {CurrentStream.id} :
                persisted.bookmarks[id] = hist.catStart.bookmarks[id]
          /\ get_currently_syncing(persisted) = CurrentStream.id
    /\ (run > 1 /\ hist.prevEnd = "failed") =>
          /\ ran # <<>> => ran[1] = hist.prevCat
          /\ (Len(ran) = 1 /\ pc \in DriverEntries) =>
                state.bookmarks = hist.prevState.bookmarks

\* After a fatal error in a stream that is not the first of the catalog, the
\* next run has entered that stream's driver.
C10_Witness ==
    /\ run > 1
    /\ hist.prevEnd = "failed"
    /\ Len(ran) = 1
    /\ pc \in DriverEntries
    /\ idx > 1
    /\ get_bookmark(state, "programs", "cursor") # BaseTime

\* ----------------------------------------------------------------- C11
\* The positions at which the process is about to make a remote call, write
\* a record, or go on to the next window, page or stream.
AtStepBoundary ==
    pc \in {"sync_loop", "returned", "leads_start", "leads_loop", "leads_wait",
            "leads_rows", "activities_start", "activities_loop",
            "activities_wait", "activities_rows", "paginated_start",
            "paginated_loop", "programs_start", "programs_loop",
            "activity_types"}

\* C11: whenever the process is about to make a remote call, write a record
\* or go on to the next window, page or stream, the last state handed to
\* write_state equals the in-memory state: every mutation of the cursor,
\* export_id, export_end, next_page_token or marker has been written.
C11_WrittenBeforeNextStep ==
    AtStepBoundary => persisted = state

\* The state was mutated by a driver (export info, cursor or page token)
\* and the process stands before its next remote call.
C11_Witness ==
    /\ AtStepBoundary
    /\ lastWrite \in {"export", "cursor", "token"}
    /\ state.bookmarks # hist.catStart.bookmarks
    /\ pc \in {"leads_wait", "leads_loop", "activities_wait", "activities_loop",
               "paginated_loop"}

\* ----------------------------------------------------------------- C12
\* The keys of a written record are the included fields of its stream.
HasIncludedKeys(e) == e.keys = IncludedFields(e.stream)

\* C12: every record written by a driver is the output of format_values for
\* its stream (its keys are exactly the fields that are selected or
\* automatic), and when a driver returns its count is the number of records
\* it wrote, one per row.
C12_RecordsAreFormatted ==
    /\ \A i \in 1..Len(emitted) : HasIncludedKeys(emitted[i])
    /\ pc = "returned" =>
          /\ loc.record_count = Len(WrittenIds(run, CurrentStream.id))
          /\ \A i, j \in 1..Len(WrittenIds(run, CurrentStream.id)) :
                WrittenIds(run, CurrentStream.id)[i] =
                    WrittenIds(run, CurrentStream.id)[j] => i = j

\* The same for the drivers other than sync_activities.
C12_OtherDriversCheck ==
    /\ \A i \in 1..Len(emitted) :
          emitted[i].stream # "activities_1" => HasIncludedKeys(emitted[i])
    /\ (pc = "returned" /\ CurrentStream.id # "activities_1") =>
          /\ loc.record_count = Len(WrittenIds(run, CurrentStream.id))
          /\ \A i, j \in 1..Len(WrittenIds(run, CurrentStream.id)) :
                WrittenIds(run, CurrentStream.id)[i] =
                    WrittenIds(run, CurrentStream.id)[j] => i = j

\* ----------------------------------------------------------------- C13
\* C13: for a field schema that declares a type (single or list, with or
\* without the date-time format), format_value returns None for the raw
\* values None, "" and "null".
C13_NullEquivalents ==
    (/\ fmt.called
     /\ fmt.schema.type.kind # "absent"
     /\ fmt.value \in {NoneV, StrV(""), StrV("null")}) =>
        fmt.result = NoneV

\* format_value has returned None for "null" under a type list with the
\* date-time format.
C13_Witness ==
    /\ fmt.called
    /\ fmt.value = StrV("null")
    /\ fmt.schema.type.kind = "list"
    /\ InSeq("integer", field_type(fmt.schema))
    /\ fmt.schema.format = "date-time"
    /\ fmt.result = NoneV

\* ----------------------------------------------------------------- C14
\* A step of get_or_create_export_for_leads / _for_activities.
GetOrCreateExportStep ==
    /\ pc \in {"leads_loop", "activities_loop"}
    /\ pc' \in {"leads_wait", "activities_wait"}

\* C14: in a window iteration create_export is called if and only if the
\* stream's bookmarked export_id is absent or the remote reports it
\* unavailable; otherwise the bookmarked id is used as it is, the window end
\* is the export_end persisted before, and neither the state nor the remote's
\* jobs change.
C14_CreateIffUnavailable ==
    [][GetOrCreateExportStep =>
          LET id == CurrentStream.id
              bookmarked == get_bookmark(state, id, "export_id")
              created == exports' # exports
          IN /\ created <=> (bookmarked = None \/ ~loc'.reported)
             /\ created =>
                   /\ Len(exports') = Len(exports) + 1
                   /\ Len(requests') = Len(requests) + 1
                   /\ Last(requests').call = "create_export"
             /\ ~created =>
                   /\ loc'.export_id = bookmarked
                   /\ loc'.export_end = get_bookmark(persisted, id, "export_end")
                   /\ state' = state
                   /\ persisted' = persisted
                   /\ requests' = requests]_vars

\* A resumed run uses the export job the run before had bookmarked.
C14_Witness ==
    /\ pc \in {"leads_wait", "activities_wait"}
    /\ run = 2
    /\ loc.reported
    /\ lastWrite = "none"
    /\ loc.export_id = get_bookmark(hist.runStart, CurrentStream.id, "export_id")
    /\ loc.export_end = get_bookmark(hist.runStart, CurrentStream.id, "export_end")
    /\ Len(exports) = 1

\* ----------------------------------------------------------------- C15
\* The page requests sync_paginated has made for a stream in this run.
PageRequests(id) ==
    SelectSeq(requests, LAMBDA q : q.run = run /\ q.stream = id /\ q.call = "request")

CoronaWindowDone ==
    /\ use_corona
    /\ pc = "leads_loop"
    /\ windows # <<>>

\* The ids written for the window the running driver handled last.
WrittenInLastWindow ==
    {emitted[i].id : i \in {j \in 1..Len(emitted) :
                               /\ emitted[j].stream = "leads"
                               /\ emitted[j].run = run
                               /\ emitted[j].win = Len(windows)}}

\* C16: in update-time (Corona) mode the first window of sync_leads starts
\* one day before the bookmark, every row of a window's export is written
\* whatever its updatedAt, and after a window with a row the persisted
\* cursor is that window's end.
C16_CoronaWindows ==
    CoronaWindowDone =>
        LET rows == LeadExportRows(loc.export_id)
        IN /\ windows[1][1] = get_bookmark(hist.catStart, "leads", "cursor")
                                 - ATTRIBUTION_WINDOW_DAYS * Day
           /\ WrittenInLastWindow = {rows[i].id : i \in 1..Len(rows)}
           /\ rows # <<>> =>
                 get_bookmark(persisted, "leads", "cursor") = Last(windows)[2]

\* A window in update-time mode has written a lead last updated before the
\* bookmark, and the cursor is the window's end.
C16_Witness ==
    /\ CoronaWindowDone
    /\ \E i \in 1..Len(emitted) :
          /\ emitted[i].run = run
          /\ emitted[i].win = Len(windows)
          /\ emitted[i].rk < emitted[i].started
    /\ get_bookmark(persisted, "leads", "cursor") = Last(windows)[2]
    /\ Last(windows)[2] > get_bookmark(hist.catStart, "leads", "cursor")

\* ----------------------------------------------------------------- C17
\* sync_programs is in its loop, or has returned.
InPrograms ==
    /\ pc \in {"programs_loop", "returned"}
    /\ CurrentStream.id = "programs"

\* C17: the requests of sync_programs carry the offsets 0, 200, 400, ... and
\* the same range from the bookmark to end_date, which was read before the
\* first of them; every response before the last request had rows; the
\* bookmark is as it was until the no-assets response and is end_date
\* afterwards; and a run interrupted before that response leaves it as it
\* was.
C17_ProgramsOffsets ==
    /\ InPrograms =>
          LET reqs == PageRequests("programs")
              before == get_bookmark(hist.catStart, "programs", "cursor")
              cursor == get_bookmark(persisted, "programs", "cursor")
          IN /\ \A i \in 1..Len(reqs) :
                   /\ reqs[i].arg = (i - 1) * MAX_RETURN
                   /\ reqs[i].earliestUpdatedAt = before
                   /\ reqs[i].latestUpdatedAt = loc.end_date
                   /\ loc.end_date <= loc.first_request
             /\ \A i \in 1..(Len(reqs) - 1) : ~ProgramsResponse(reqs[i].arg).no_assets
             /\ pc = "programs_loop" => cursor = before
             /\ pc = "returned" =>
                   /\ ProgramsResponse(Last(reqs).arg).no_assets
                   /\ cursor = loc.end_date
    /\ (/\ OnlyStream("programs")
        /\ run = 2
        /\ hist.prevEnd = "crashed"
        /\ hist.prevCat = "programs"
        /\ hist.prevWrite # "cursor") =>
          get_bookmark(hist.runStart, "programs", "cursor") =
              get_bookmark(hist.initial, "programs", "cursor")

\* sync_programs has returned after the requests at offsets 0, 200 and 400,
\* at a time later than end_date.
C17_Witness ==
    /\ InPrograms
    /\ pc = "returned"
    /\ Len(PageRequests("programs")) = 3
    /\ Last(PageRequests("programs")).arg = 2 * MAX_RETURN
    /\ get_bookmark(persisted, "programs", "cursor") < now

\* The interrupted case: a run of sync_programs was killed after its second
\* request, before the no-assets response, and the tap was run again.
C17_Interrupted ==
    /\ OnlyStream("programs")
    /\ run = 2
    /\ hist.prevEnd = "crashed"
    /\ hist.prevCat = "programs"
    /\ hist.prevWrite # "cursor"
    /\ \E i \in 1..Len(requests) : requests[i].run = 1 /\ requests[i].arg = MAX_RETURN

\* ----------------------------------------------------------------- C18
\* C18: whenever sync has returned normally, the persisted currently-syncing
\* marker is cleared, whatever marker the run started with.
C18_MarkerCleared ==
    pc = "done" => get_currently_syncing(persisted) = NoStream

\* The same, for a run that started with no marker or with the marker on a
\* selected stream of the catalog.
C18_SelectedMarkerCheck ==
    LET m == get_currently_syncing(hist.runStart)
    IN (m = NoStream \/ ResumesAt(m)) => C18_MarkerCleared

\* ----------------------------------------------------------------- C19
\* No stream's persisted cursor is lowered by the step.
CursorsNotLowered ==
    \A id \in StreamIds :
        get_bookmark(persisted', id, "cursor") >= get_bookmark(persisted, id, "cursor")

\* The bookmarks the first run started from are not later than the time it
\* started at.
InitialBookmarkNotLater ==
    \A id \in StreamIds : get_bookmark(hist.initial, id, "cursor") <= now

\* C19: when the initial bookmark is not later than the current time, no
\* write of a first, resumed or later run lowers the persisted cursor of a
\* stream.
C19_CursorNeverDecreases ==
    [][InitialBookmarkNotLater => CursorsNotLowered]_vars

\* The same, when the initial bookmark is on a whole second.
C19_WholeSecondCheck ==
    [][(/\ InitialBookmarkNotLater
        /\ \A id \in StreamIds :
              get_bookmark(hist.initial, id, "cursor") =
                  TruncSecond(get_bookmark(hist.initial, id, "cursor")))
       => CursorsNotLowered]_vars

\* ----------------------------------------------------------------- C20
\* C20: every window iteration of sync_leads and sync_activities ends with
\* an export_end strictly greater than the export_start it began with,
\* whether the export was created or a bookmarked one was reused, so that
\* export_start moves towards the run's start time with every window.
C20_WindowsAdvance ==
    \A i \in 1..Len(windows) : windows[i][2] > windows[i][1]

\* The same, for the windows of a first run that started on a whole second
\* from a bookmark on a whole second.
C20_WholeSecondCheck ==
    (/\ run = 1
     /\ windows # <<>>
     /\ loc.job_started = TruncSecond(loc.job_started)
     /\ \A id \in StreamIds :
           get_bookmark(hist.initial, id, "cursor") =
               TruncSecond(get_bookmark(hist.initial, id, "cursor")))
    => C20_WindowsAdvance

\* A resumed run reuses a bookmarked export whose end lies before the
\* cursor the run starts from.
C20_ReusedEndBeforeStart ==
    /\ run = 2
    /\ windows # <<>>
    /\ loc.reported
    /\ windows[1][2] < windows[1][1]

====
